---- MODULE Spec2Model ----
(***************************************************************************)
(* Model of the multi-provider analysis orchestration of                   *)
(* src/services/geminiService.ts: runAnalysis, its task tracker            *)
(* (updateTaskStatus), the client initializer, the retry engine            *)
(* (retryWithBackoff / isRetryableError) and the error paths of the        *)
(* provider adapters; of one invocation of a provider adapter (primary     *)
(* call, analysis call, the concurrent calls for the additional            *)
(* questions), by itself and under the retry engine; of the citation       *)
(* parsing of the Perplexity adapter; of the key-verification functions;   *)
(* and of calculateRunSummary of the project dashboard.                    *)
(*                                                                         *)
(* JavaScript runs every callback to completion: the model takes one step  *)
(* per synchronous stretch of code and records in `main` and `proc` where  *)
(* each async function is suspended.                                       *)
(***************************************************************************)
EXTENDS Integers, Sequences, FiniteSets, TLC

(* ----------------------------- bounds --------------------------------- *)
(* work units (prompts x providers) of one run *)
MaxUnits == 4

(* provider calls that fail in one run, over all work units *)
MaxFailures == 3

(* ------------------------- program constants -------------------------- *)
Retries == 2

BaseDelay == 1000

Providers == {"gemini", "openai", "openai-websearch", "perplexity"}

KeyNames == {"gemini", "openai", "perplexity"}

(* the credential a provider's adapter is given *)
KeyOf(provider) ==
  IF provider = "openai-websearch" THEN "openai" ELSE provider

(* host of the endpoint the adapter of a provider posts to *)
HostOf(provider) ==
  CASE provider = "gemini" -> "generativelanguage.googleapis.com"
    [] provider = "perplexity" -> "api.perplexity.ai"
    [] OTHER -> "api.openai.com"

(* the provider tag each adapter writes into the ProviderResponse it returns *)
AdapterProviderTag(provider) ==
  CASE provider = "gemini" -> "gemini"
    [] provider = "openai" -> "openai"
    [] provider = "openai-websearch" -> "openai-websearch"
    [] provider = "perplexity" -> "perplexity"

(* ----------------------- optional values ------------------------------ *)
(* an optional field is <<>> when undefined and <<v>> when it holds v *)
None == <<>>

Some(v) == <<v>>

(* ------------------------------ messages ------------------------------ *)
(* a message is a sequence of text fragments; String.includes looks for a *)
(* fragment                                                                *)
Includes(message, needle) ==
  \E i \in 1..Len(message) : message[i] = needle

FailedToFetch == <<"Failed to fetch">>

AuthFailedMsg == <<"Authentication failed. Please check your API key.">>

GeminiAuthFailedMsg ==
  <<"Authentication failed. Please check if the Google Gemini API key is correct and valid.">>

NetworkErrorMsg(host) ==
  <<"Network Error", "Failed to connect to", host>>

(* ------------------------------- errors ------------------------------- *)
(* name: the class of the thrown value; status: the own property of an    *)
(* APIError (0 when the value has no such property)                       *)
MkError(name, status, message) ==
  [name |-> name, status |-> status, message |-> message]

NoError == MkError("none", 0, <<>>)

isRetryableError(error) ==
  IF error.name = "TypeError" /\ error.message = FailedToFetch
    THEN TRUE
    ELSE IF error.name = "APIError"
      THEN error.status = 429 \/ (error.status >= 500 /\ error.status <= 504)
      ELSE Includes(error.message, "rate limit") \/ Includes(error.message, "503")

(* What a failing provider call looks like on the wire:                    *)
(*   network  - fetch rejects with TypeError('Failed to fetch')            *)
(*   http     - a response whose status is not 2xx; text is                *)
(*              errorData.error?.message || response.statusText            *)
(*   parse    - the call returns, JSON.parse of the analysis output throws *)
(*              a SyntaxError whose message is text                        *)
(*   shape    - the call returns a body without choices[0].message         *)
Outcome(kind, status, text) ==
  [kind |-> kind, status |-> status, text |-> text]

NoFailure == Outcome("none", 0, <<>>)

(* the error genericAIFetch throws for a failing outcome *)
genericAIFetch(outcome, host) ==
  CASE outcome.kind = "network" ->
         MkError("Error", 0, NetworkErrorMsg(host))
    [] outcome.kind = "http" ->
         IF outcome.status = 401
           THEN MkError("APIError", 401, AuthFailedMsg)
           ELSE MkError("APIError", outcome.status, outcome.text)
    [] outcome.kind = "parse" ->
         MkError("SyntaxError", 0, outcome.text)
    [] OTHER ->
         MkError("TypeError", 0, <<"Cannot read properties of undefined">>)

(* the error client.models.generateContent rejects with: the transport     *)
(* failure itself, or an error whose message carries the status and the    *)
(* server's text                                                           *)
generateContent(outcome) ==
  CASE outcome.kind = "network" ->
         MkError("TypeError", 0, FailedToFetch)
    [] outcome.kind = "http" ->
         MkError("Error", 0, <<ToString(outcome.status)>> \o outcome.text)
    [] outcome.kind = "parse" ->
         MkError("SyntaxError", 0, outcome.text)
    [] OTHER ->
         MkError("TypeError", 0, <<"Cannot read properties of undefined">>)

runGeminiAnalysisForPrompt(outcome) ==
  LET e == generateContent(outcome) IN
    IF Includes(e.message, "API key not valid")
      THEN MkError("Error", 0, GeminiAuthFailedMsg)
      ELSE e

(* the value an adapter invocation throws when one of its calls fails *)
AdapterThrows(provider, outcome) ==
  IF provider = "gemini"
    THEN runGeminiAnalysisForPrompt(outcome)
    ELSE genericAIFetch(outcome, HostOf(provider))

(* ---------------------------- configuration --------------------------- *)
PromptTexts == [n \in 1..MaxUnits |-> <<"prompt", n>>]

Range(s) == {s[i] : i \in 1..Len(s)}

(* the providers in the order the setup form lists them *)
FormOrder == <<"gemini", "openai", "openai-websearch", "perplexity">>

Reverse(s) == [i \in 1..Len(s) |-> s[Len(s) + 1 - i]]

(* s picks its elements out of t from left to right *)
IsSubSeq(s, t) ==
  \E f \in [1..Len(s) -> 1..Len(t)] :
    /\ \A i \in 1..Len(s) : s[i] = t[f[i]]
    /\ \A i, j \in 1..Len(s) : i < j => f[i] < f[j]

(* the provider selections: distinct providers, toggled on in the order of *)
(* the form or in the opposite order                                       *)
ProviderLists ==
  UNION {{s \in [1..n -> Providers] :
            IsSubSeq(s, FormOrder) \/ IsSubSeq(s, Reverse(FormOrder))} :
         n \in 1..Cardinality(Providers)}

KeysNeeded(providers) == {KeyOf(providers[i]) : i \in 1..Len(providers)}

(* AppConfig. apiKeys[k] and models[p] say whether the value is present    *)
(* (a non-empty string). Keys and models of providers that are not         *)
(* selected are never read after initializeClients and are left absent.    *)
Configs ==
  {[providers |-> pl, apiKeys |-> [k \in KeyNames |-> k \in keys],
    models |-> [p \in Providers |-> p \in mods],
    prompts |-> SubSeq(PromptTexts, 1, np)] :
     pl \in ProviderLists, keys \in SUBSET KeyNames, mods \in SUBSET Providers,
     np \in 1..MaxUnits}

ValidInput(c) ==
  /\ Len(c.prompts) * Len(c.providers) <= MaxUnits
  /\ {k \in KeyNames : c.apiKeys[k]} \subseteq KeysNeeded(c.providers)
  /\ {p \in Providers : c.models[p]} \subseteq Range(c.providers)

(* LlmClients, or the error initializeClients throws *)
initializeClients(c) ==
  IF "gemini" \in Range(c.providers) /\ ~c.apiKeys["gemini"]
    THEN [threw |-> TRUE,
          error |-> MkError("Error", 0, <<"Google Gemini API Key is missing.">>),
          clients |-> [k \in KeyNames |-> FALSE]]
    ELSE [threw |-> FALSE,
          error |-> NoError,
          clients |->
            [k \in KeyNames |->
               CASE k = "gemini" -> "gemini" \in Range(c.providers)
                 [] k = "openai" ->
                      ("openai" \in Range(c.providers)
                         \/ "openai-websearch" \in Range(c.providers))
                      /\ c.apiKeys["openai"]
                 [] k = "perplexity" ->
                      "perplexity" \in Range(c.providers) /\ c.apiKeys["perplexity"]]]

(* the guard at the head of each arm of the switch over the provider *)
NotInitializedMsg(provider) ==
  CASE provider = "gemini" -> <<"Gemini client not initialized properly.">>
    [] provider = "openai" -> <<"OpenAI client not initialized properly.">>
    [] provider = "openai-websearch" ->
         <<"OpenAI Web Search client not initialized properly.">>
    [] provider = "perplexity" -> <<"Perplexity client not initialized properly.">>

ClientReady(cl, c, provider) ==
  cl[KeyOf(provider)] /\ c.models[provider]

(* ---------------- the locals of an adapter invocation ----------------- *)
(* The output of the analysis call:                                        *)
(*   present     - the message has a content (text) at all                 *)
(*   fence       - the JSON text is wrapped in a json code fence             *)
(*   syntaxError - what JSON.parse says about the JSON text, if it is      *)
(*                 malformed                                               *)
(*   shape       - the JSON text is an object with the key "brands", or    *)
(*                 the array of entries itself                             *)
AnalysisContent(present, fence, syntaxError, shape, entries) ==
  [present |-> present, fence |-> fence, syntaxError |-> syntaxError,
   shape |-> shape, entries |-> entries]

NoContent == AnalysisContent(FALSE, FALSE, None, "brands", <<>>)

(* JavaScript values: an array, an object {brands: array}, undefined, and  *)
(* a thrown error                                                          *)
ArrayValue(entries) == [kind |-> "array", entries |-> entries, error |-> NoError]

ObjectValue(entries) == [kind |-> "object", entries |-> entries, error |-> NoError]

Undefined == [kind |-> "undefined", entries |-> <<>>, error |-> NoError]

Thrown(e) == [kind |-> "thrown", entries |-> <<>>, error |-> e]

(* a pair of token counters *)
Tokens(input, output) == [inputTokens |-> input, outputTokens |-> output]

(* the locals of an adapter invocation before its first call *)
(* a call of an adapter: the primary call, the analysis call, or the call  *)
(* for question q                                                          *)
Call(call, q) == [call |-> call, question |-> q]

NewInvocation(provider, questions) ==
  [pc |-> "idle", provider |-> provider, additionalQuestions |-> questions,
   attempt |-> 1, issued |-> <<>>, stale |-> 0, fate |-> <<>>,
   responseText |-> None,
   allRawResponses |-> <<>>,
   otherTokens |-> Tokens(0, 0), analysisTokens |-> Tokens(0, 0),
   analysisOutput |-> NoContent, brandAnalyses |-> Undefined,
   inFlight |-> {},
   additionalAnswers |-> [q \in 1..questions |-> None],
   result |-> None, thrown |-> NoError]

(* ------------------------------- state -------------------------------- *)
VARIABLES
  config,     \* the AppConfig runAnalysis was called with
  main,       \* where runAnalysis is: idle, map, await, resolved, rejected
  rejection,  \* the error runAnalysis rejected with
  clients,    \* LlmClients
  tasks,      \* the Task objects, in the order of the tasks array
  callback,   \* what onProgress has been handed and has read
  pIndex,     \* index of the prompt the for loop is at (1-based)
  mapIndex,   \* index of the provider the map callback runs for next
  proc,       \* per provider of the current prompt: the async map callback
  settled,    \* indexes of providerPromises in the order they settled
  resultsByPrompt,
  adapter,      \* one invocation of a provider adapter: its locals and calls
  rawData,      \* citations and search_results of a Perplexity response
  citations,    \* the Citation list built from rawData
  verification, \* one call of a key-verification function
  summary       \* one call of calculateRunSummary: its arguments and result

vars == <<config, main, rejection, clients, tasks, callback, pIndex, mapIndex, proc,
          settled, resultsByPrompt, adapter, rawData, citations, verification,
          summary>>

(* the variables runAnalysis does not touch *)
besideRun == <<adapter, rawData, citations, verification, summary>>

(* the variables an adapter invocation does not touch *)
besideAdapter ==
  <<config, main, rejection, clients, tasks, callback, pIndex, mapIndex, proc,
    settled, resultsByPrompt, rawData, citations, verification, summary>>

(* no adapter invocation, citation parsing or key verification under way *)
NoInvocation == NewInvocation("gemini", 0)

NoRawData == [citations |-> <<>>, search_results |-> <<>>]

NoVerification ==
  [pc |-> "idle", key |-> "gemini", outcome |-> NoFailure, thrown |-> NoError,
   result |-> None]

NoSummary == [pc |-> "idle", results |-> <<>>, clientName |-> <<>>, value |-> None]

NumPrompts == Len(config.prompts)

NumProviders == Len(config.providers)

(* taskId: `prompt-${pIndex}-${provider}`, pIndex counted from 0 *)
TaskId(p, provider) == <<p - 1, provider>>

NewTask(p, provider) ==
  [id |-> TaskId(p, provider), status |-> "pending", error |-> None, retries |-> None]

(* the tasks array built by the two nested forEach loops *)
BuildTasks(c) ==
  [n \in 1..(Len(c.prompts) * Len(c.providers)) |->
     NewTask(((n - 1) \div Len(c.providers)) + 1,
             c.providers[((n - 1) % Len(c.providers)) + 1])]

(* [...tasks]: a new array holding the same Task objects. An object is     *)
(* identified by its position in tasks.                                    *)
SpreadTasks(ts) == [n \in 1..Len(ts) |-> n]

(* what a holder of a snapshot array reads through it *)
View(snapshot, ts) == [n \in 1..Len(snapshot) |-> ts[snapshot[n]]]

onProgress(ts) ==
  [calls |-> callback.calls + 1, arg |-> SpreadTasks(ts),
   seen |-> View(SpreadTasks(ts), ts)]

(* tasks.findIndex(t => t.id === taskId); 0 stands for -1 *)
FindIndex(ts, taskId) ==
  IF \E n \in 1..Len(ts) : ts[n].id = taskId
    THEN CHOOSE n \in 1..Len(ts) :
           ts[n].id = taskId /\ \A m \in 1..(n - 1) : ts[m].id # taskId
    ELSE 0

Truthy(opt) == opt # None /\ opt[1] # <<>>

(* mutant: onRetry puts the unit back to pending *)
UpdatedTasks_requeue(ts, taskId, status, error, retries) ==
  LET taskIndex == FindIndex(ts, taskId) IN
    IF taskIndex = 0 THEN ts
    ELSE [ts EXCEPT ![taskIndex] =
            [@ EXCEPT !.status = IF retries # None THEN "pending" ELSE status,
                      !.error = IF Truthy(error) THEN error ELSE @,
                      !.retries = IF retries # None THEN retries ELSE @]]

(* mutant: the units are matched by the provider part of the id only *)
UpdatedTasks_byProvider(ts, taskId, status, error, retries) ==
  [n \in 1..Len(ts) |->
     IF ts[n].id[2] = taskId[2]
       THEN [ts[n] EXCEPT !.status = status,
                          !.error = IF Truthy(error) THEN error ELSE @,
                          !.retries = IF retries # None THEN retries ELSE @]
       ELSE ts[n]]

(* mutant: the retries field is assigned on every update, also when the   *)
(* argument is undefined                                                   *)
UpdatedTasks_resetsRetries(ts, taskId, status, error, retries) ==
  LET taskIndex == FindIndex(ts, taskId) IN
    IF taskIndex = 0 THEN ts
    ELSE [ts EXCEPT ![taskIndex] =
            [@ EXCEPT !.status = status,
                      !.error = IF Truthy(error) THEN error ELSE @,
                      !.retries = retries]]

(* the tasks array after updateTaskStatus(taskId, status, error, retries)  *)
UpdatedTasks(ts, taskId, status, error, retries) ==
  LET taskIndex == FindIndex(ts, taskId) IN
    IF taskIndex = 0 THEN ts
    ELSE [ts EXCEPT ![taskIndex] =
            [@ EXCEPT !.status = status,
                      !.error = IF Truthy(error) THEN error ELSE @,
                      !.retries = IF retries # None THEN retries ELSE @]]

updateTaskStatus(taskId, status, error, retries) ==
  LET ts == UpdatedTasks(tasks, taskId, status, error, retries) IN
    /\ tasks' = ts
    /\ callback' = IF FindIndex(tasks, taskId) # 0 THEN onProgress(ts) ELSE callback

(* -------------------------- the map callback -------------------------- *)
IdleProc ==
  [pc |-> "idle", attempt |-> 0, delay |-> 0, lastError |-> NoError,
   failure |-> NoFailure, value |-> None]

(* the ProviderResponse an adapter returns *)
AdapterReturns(provider) ==
  [provider |-> AdapterProviderTag(provider), response |-> "text",
   brandAnalyses |-> <<"analysis">>, additionalAnswers |-> <<>>,
   error |-> None, rawResponse |-> NoError]

(* the ProviderResponse the catch block of the map callback builds *)
ErrorResponse(provider, e) ==
  [provider |-> provider, response |-> "", brandAnalyses |-> <<>>,
   additionalAnswers |-> <<>>, error |-> Some(e.message), rawResponse |-> e]

Init ==
  /\ config \in {c \in Configs : ValidInput(c)}
  /\ main = "idle"
  /\ rejection = NoError
  /\ clients = [key \in KeyNames |-> FALSE]
  /\ tasks = <<>>
  /\ callback = [calls |-> 0, arg |-> <<>>, seen |-> <<>>]
  /\ pIndex = 0
  /\ mapIndex = 0
  /\ proc = <<>>
  /\ settled = <<>>
  /\ resultsByPrompt = <<>>
  /\ adapter = NoInvocation
  /\ rawData = NoRawData
  /\ citations = None
  /\ verification = NoVerification
  /\ summary = NoSummary

(* runAnalysis up to the first iteration of the for loop *)
RunAnalysis ==
  /\ main = "idle"
  /\ LET ic == initializeClients(config) IN
       IF ic.threw
         THEN /\ main' = "rejected"
              /\ rejection' = ic.error
              /\ UNCHANGED <<clients, tasks, callback, pIndex, mapIndex, proc>>
         ELSE /\ clients' = ic.clients
              /\ tasks' = BuildTasks(config)
              /\ callback' = onProgress(BuildTasks(config))
              /\ main' = "map"
              /\ pIndex' = 1
              /\ mapIndex' = 1
              /\ proc' = [i \in 1..NumProviders |-> IdleProc]
              /\ UNCHANGED rejection
  /\ UNCHANGED <<config, settled, resultsByPrompt, besideRun>>

(* one call of the map callback, up to its first await: the unit goes      *)
(* in_progress, the switch picks the adapter or throws, and                *)
(* retryWithBackoff makes the first call of the adapter                    *)
StartUnit ==
  /\ main = "map"
  /\ mapIndex <= NumProviders
  /\ LET provider == config.providers[mapIndex] IN
       /\ updateTaskStatus(TaskId(pIndex, provider), "in_progress", None, None)
       /\ IF ClientReady(clients, config, provider)
            THEN /\ proc' = [proc EXCEPT ![mapIndex] = [@ EXCEPT !.pc = "calling", !.attempt = 1]]
                 /\ UNCHANGED settled
            ELSE /\ proc' = [proc EXCEPT ![mapIndex] =
                       [@ EXCEPT !.pc = "threw",
                                 !.lastError =
                                   MkError("Error", 0, NotInitializedMsg(provider))]]
                 /\ settled' = Append(settled, mapIndex)
  /\ mapIndex' = mapIndex + 1
  /\ UNCHANGED <<config, main, rejection, clients, pIndex, resultsByPrompt, besideRun>>

(* await Promise.all(providerPromises): a promise that is already rejected *)
(* rejects it, and with it runAnalysis, before any other callback runs     *)
AwaitAll ==
  /\ main = "map"
  /\ mapIndex > NumProviders
  /\ IF \E i \in 1..NumProviders : proc[i].pc = "threw"
       THEN /\ main' = "rejected"
            /\ rejection' = proc[settled[1]].lastError
       ELSE /\ main' = "await"
            /\ UNCHANGED rejection
  /\ UNCHANGED <<config, clients, tasks, callback, pIndex, mapIndex, proc, settled,
                 resultsByPrompt, besideRun>>

(* Math.pow(2, n) *)
RECURSIVE Pow2(_)
Pow2(n) == IF n <= 0 THEN 1 ELSE 2 * Pow2(n - 1)

(* a unit of the current prompt whose callback can be resumed: never while *)
(* the synchronous map is still running                                    *)
Resumable(i) ==
  /\ main \in {"await", "rejected"}
  /\ i \in 1..Len(proc)

(* the provider calls that have failed so far: every retry and every      *)
(* error status of a work unit stands for one failed adapter call          *)
RECURSIVE FailedCalls(_)
FailedCalls(ts) ==
  IF ts = <<>> THEN 0
  ELSE (IF Head(ts).retries = None THEN 0 ELSE Head(ts).retries[1])
       + (IF Head(ts).status = "error" THEN 1 ELSE 0)
       + FailedCalls(Tail(ts))

(* mutant: onRetry reports the number of the retries made before *)
RetryAfter_zeroBased(i, e, o) ==
  LET attempt == proc[i].attempt IN
    /\ updateTaskStatus(TaskId(pIndex, config.providers[i]), "in_progress", None,
                        Some(attempt - 1))
    /\ proc' = [proc EXCEPT ![i] =
         [@ EXCEPT !.pc = "waiting", !.lastError = e, !.failure = o,
                   !.delay = BaseDelay * Pow2(attempt - 1)]]
    /\ UNCHANGED <<settled, main, rejection>>

(* mutant: the next attempt is made at once, without the backoff timer *)
RetryAfter_immediate(i, e, o) ==
  LET attempt == proc[i].attempt IN
    /\ updateTaskStatus(TaskId(pIndex, config.providers[i]), "in_progress", None,
                        Some(attempt))
    /\ proc' = [proc EXCEPT ![i] =
         [@ EXCEPT !.pc = "calling", !.attempt = attempt + 1, !.lastError = e,
                   !.failure = o]]
    /\ UNCHANGED <<settled, main, rejection>>

(* catch block of retryWithBackoff, retry branch: onRetry marks the unit   *)
(* in_progress with the attempt number, then the backoff timer is started  *)
RetryAfter(i, e, o) ==
  LET attempt == proc[i].attempt IN
    /\ updateTaskStatus(TaskId(pIndex, config.providers[i]), "in_progress", None,
                        Some(attempt))
    /\ proc' = [proc EXCEPT ![i] =
         [@ EXCEPT !.pc = "waiting", !.lastError = e, !.failure = o,
                   !.delay = BaseDelay * Pow2(attempt - 1)]]
    /\ UNCHANGED <<settled, main, rejection>>

(* mutant: the map callback has no catch block, the error rejects          *)
(* Promise.all                                                             *)
CatchAndReturn_uncaught(i, e, o) ==
  /\ proc' = [proc EXCEPT ![i] =
       [@ EXCEPT !.pc = "threw", !.lastError = e, !.failure = o]]
  /\ settled' = Append(settled, i)
  /\ main' = "rejected"
  /\ rejection' = IF main = "rejected" THEN rejection ELSE e
  /\ UNCHANGED <<tasks, callback>>

(* retryWithBackoff rethrows lastError; the catch block of the map         *)
(* callback marks the unit as error and returns the error response         *)
CatchAndReturn(i, e, o) ==
  LET provider == config.providers[i] IN
    /\ updateTaskStatus(TaskId(pIndex, provider), "error", Some(e.message), None)
    /\ proc' = [proc EXCEPT ![i] =
         [@ EXCEPT !.pc = "returned", !.lastError = NoError, !.failure = o,
                   !.value = Some(ErrorResponse(provider, e))]]
    /\ settled' = Append(settled, i)
    /\ UNCHANGED <<main, rejection>>

(* the classes of the values the adapters throw: all are Error objects *)
ErrorClasses == {"Error", "TypeError", "APIError", "SyntaxError"}

(* mutant: the caught value is always wrapped in a new Error *)
LastError_wrapped(e) == MkError("Error", 0, e.message)

(* lastError = e instanceof Error ? e : new Error(String(e)) *)
LastError(e) ==
  IF e.name \in ErrorClasses THEN e ELSE MkError("Error", 0, e.message)

(* The adapter call of attempt proc[i].attempt fails with outcome o: the   *)
(* catch block of retryWithBackoff either schedules a retry or rethrows.   *)
CallFails(i, o) ==
  /\ Resumable(i)
  /\ proc[i].pc = "calling"
  /\ FailedCalls(tasks) < MaxFailures
  /\ LET e == AdapterThrows(config.providers[i], o) IN
       IF isRetryableError(e) /\ proc[i].attempt <= Retries
         THEN RetryAfter(i, LastError(e), o)
         ELSE CatchAndReturn(i, LastError(e), o)
  /\ UNCHANGED <<config, clients, pIndex, mapIndex, resultsByPrompt, besideRun>>

(* mutant: the promise of the backoff timer is never resolved *)
BackoffElapsed_neverFires(i) ==
  /\ Resumable(i)
  /\ proc[i].pc = "waiting"
  /\ UNCHANGED vars

(* the backoff timer fires: the for loop of retryWithBackoff calls fn again *)
BackoffElapsed(i) ==
  /\ Resumable(i)
  /\ proc[i].pc = "waiting"
  /\ proc' = [proc EXCEPT ![i] =
       [@ EXCEPT !.pc = "calling", !.attempt = @ + 1, !.delay = 0]]
  /\ UNCHANGED <<config, main, rejection, clients, tasks, callback, pIndex,
                 mapIndex, settled, resultsByPrompt, besideRun>>

(* the adapter returns its ProviderResponse *)
CallSucceeds(i) ==
  /\ Resumable(i)
  /\ proc[i].pc = "calling"
  /\ LET provider == config.providers[i]
         taskId == TaskId(pIndex, provider)
         response == AdapterReturns(provider)
     IN /\ IF Truthy(response.error)
             THEN updateTaskStatus(taskId, "error", response.error, None)
             ELSE updateTaskStatus(taskId, "completed", None, None)
        /\ proc' = [proc EXCEPT ![i] =
             [@ EXCEPT !.pc = "returned", !.lastError = NoError,
                       !.failure = NoFailure, !.value = Some(response)]]
  /\ settled' = Append(settled, i)
  /\ UNCHANGED <<config, main, rejection, clients, pIndex, mapIndex, resultsByPrompt,
                 besideRun>>

(* mutant: only the responses without error are kept *)
PromiseAll_fulfilledOnly(procs, order) ==
  SelectSeq([i \in 1..Len(procs) |-> procs[i].value[1]], LAMBDA r : r.error = None)

(* mutant: the values in the order in which the promises settled *)
PromiseAll_settleOrder(procs, order) ==
  [i \in 1..Len(procs) |-> procs[order[i]].value[1]]

(* Promise.all: the values of the promises, in the order of the promises *)
PromiseAll(procs, order) ==
  [i \in 1..Len(procs) |-> procs[i].value[1]]

(* mutant: the loop goes on as soon as one provider has returned           *)
(* (Promise.race), with the responses that are there                       *)
PromptDone_race ==
  /\ main = "await"
  /\ \E i \in 1..NumProviders : proc[i].pc = "returned"
  /\ resultsByPrompt' =
       Append(resultsByPrompt,
              [prompt |-> config.prompts[pIndex],
               providerResponses |->
                 [i \in 1..NumProviders |->
                    IF proc[i].pc = "returned" THEN proc[i].value[1]
                    ELSE AdapterReturns(config.providers[i])]])
  /\ IF pIndex < NumPrompts
       THEN /\ pIndex' = pIndex + 1
            /\ mapIndex' = 1
            /\ main' = "map"
            /\ proc' = [i \in 1..NumProviders |-> IdleProc]
            /\ settled' = <<>>
       ELSE /\ main' = "resolved"
            /\ UNCHANGED <<pIndex, mapIndex, proc, settled>>
  /\ UNCHANGED <<config, rejection, clients, tasks, callback, besideRun>>

(* Promise.all resolves: the AnalysisResult is pushed and the for loop     *)
(* goes to the next prompt, or runAnalysis returns                         *)
PromptDone ==
  /\ main = "await"
  /\ \A i \in 1..NumProviders : proc[i].pc = "returned"
  /\ resultsByPrompt' =
       Append(resultsByPrompt,
              [prompt |-> config.prompts[pIndex],
               providerResponses |-> PromiseAll(proc, settled)])
  /\ IF pIndex < NumPrompts
       THEN /\ pIndex' = pIndex + 1
            /\ mapIndex' = 1
            /\ main' = "map"
            /\ proc' = [i \in 1..NumProviders |-> IdleProc]
            /\ settled' = <<>>
       ELSE /\ main' = "resolved"
            /\ UNCHANGED <<pIndex, mapIndex, proc, settled>>
  /\ UNCHANGED <<config, rejection, clients, tasks, callback, besideRun>>

(* the failures the provider calls of a run are answered with *)
RunFailures ==
  {Outcome("network", 0, <<>>),
   Outcome("http", 401, <<>>),
   Outcome("http", 503, <<"Service Unavailable">>)}

Next ==
  \/ RunAnalysis
  \/ StartUnit
  \/ AwaitAll
  \/ \E i \in 1..Cardinality(Providers), o \in RunFailures : CallFails(i, o)
  \/ \E i \in 1..Cardinality(Providers) : BackoffElapsed(i)
  \/ \E i \in 1..Cardinality(Providers) : CallSucceeds(i)
  \/ PromptDone

Spec == Init /\ [][Next]_vars

(* ------------------------- vocabulary of the claims -------------------- *)
Terminal(status) == status \in {"completed", "error"}

(* the prompt (1-based) and the provider position of the n-th task *)
PromptOf(n) == ((n - 1) \div NumProviders) + 1

(* the position in tasks of the unit of prompt p and provider position i *)
UnitAt(p, i) == (p - 1) * NumProviders + i

AllPending(snapshot) ==
  \A n \in 1..Len(snapshot) : snapshot[n].status = "pending"

MissingCredential(c) ==
  \E i \in 1..Len(c.providers) : ~c.apiKeys[KeyOf(c.providers[i])]

MissingModel(c) ==
  \E i \in 1..Len(c.providers) : ~c.models[c.providers[i]]

(* some adapter call of the run has been made *)
CallIssued == \E i \in 1..Len(proc) : proc[i].attempt > 0

(* C1: when runAnalysis resolves, the result has one AnalysisResult per    *)
(* prompt, in the order of config.prompts, each with one ProviderResponse  *)
(* per selected provider, also when every provider call has failed.        *)
C1_ResultShape ==
  main = "resolved" =>
    /\ Len(resultsByPrompt) = NumPrompts
    /\ \A p \in 1..Len(resultsByPrompt) :
         /\ resultsByPrompt[p].prompt = config.prompts[p]
         /\ Len(resultsByPrompt[p].providerResponses) = NumProviders

C1_Witness ==
  /\ main = "resolved"
  /\ NumPrompts * NumProviders >= 2
  /\ \A p \in 1..Len(resultsByPrompt) :
       \A i \in 1..Len(resultsByPrompt[p].providerResponses) :
         resultsByPrompt[p].providerResponses[i].error # None

(* C2: runAnalysis rejects only when the configuration lacks a credential  *)
(* or a model; a unit whose adapter failed is in the error status and its  *)
(* slot of the result holds a ProviderResponse with error set, next to the *)
(* responses of the other providers and of the later prompts.              *)
C2_FailureIsolated ==
  /\ main = "rejected" => MissingCredential(config) \/ MissingModel(config)
  /\ \A i \in 1..Len(proc) :
       proc[i].failure # NoFailure /\ proc[i].pc = "returned" =>
         /\ tasks[UnitAt(pIndex, i)].status = "error"
         /\ proc[i].value[1].error # None
  /\ \A p \in 1..Len(resultsByPrompt) :
       \A i \in 1..NumProviders :
         tasks[UnitAt(p, i)].status = "error"
           <=> resultsByPrompt[p].providerResponses[i].error # None

C2_Witness ==
  /\ main = "resolved"
  /\ NumPrompts >= 2
  /\ NumProviders >= 2
  /\ tasks[UnitAt(1, 1)].status = "error"
  /\ tasks[UnitAt(1, 1)].retries = Some(Retries)
  /\ resultsByPrompt[1].providerResponses[1].error # None
  /\ resultsByPrompt[1].providerResponses[2].error = None
  /\ resultsByPrompt[2].providerResponses[1].error = None

(* C3: if the credential of a selected provider is missing (every selected *)
(* provider has a model), then at the rejection of runAnalysis no unit has *)
(* left pending: onProgress was never called or has seen all-pending       *)
(* snapshots only.                                                         *)
C3_RejectsBeforeInProgress ==
  main = "rejected" /\ MissingCredential(config) /\ ~MissingModel(config) =>
    /\ callback.calls = 0 \/ AllPending(callback.seen)
    /\ AllPending(tasks)

(* C4: if a selected provider has no model identifier (every credential is *)
(* present), runAnalysis rejects without having started: no unit is        *)
(* in_progress and no adapter call was made.                               *)
C4_NeverPartiallyStarts ==
  MissingModel(config) /\ ~MissingCredential(config) =>
    /\ main # "resolved"
    /\ main = "rejected" =>
         /\ ~CallIssued
         /\ \A n \in 1..Len(tasks) : tasks[n].status # "in_progress"

(* C5: from one progress snapshot to the next the status of a unit stays,  *)
(* or moves from pending to in_progress, or from in_progress to completed  *)
(* or error; a completed or error unit does not change any more.           *)
LegalMove(from, to) ==
  \/ to = from
  \/ from = "pending" /\ to = "in_progress"
  \/ from = "in_progress" /\ Terminal(to)

C5_StatusMonotone ==
  [][callback.calls > 0 =>
       \A n \in 1..Len(callback.seen) :
         /\ LegalMove(callback.seen[n].status, callback'.seen[n].status)
         /\ Terminal(callback.seen[n].status) => callback'.seen[n] = callback.seen[n]]_vars

C5_Witness ==
  \E n, m \in 1..Len(callback.seen) :
    /\ callback.seen[n].status = "completed"
    /\ callback.seen[n].retries = Some(1)
    /\ callback.seen[m].status = "error"

(* C6: a unit of a later prompt leaves pending, and a call for it is made, *)
(* only when every unit of the earlier prompts is completed or error; at   *)
(* most |providers| units are in_progress.                                 *)
C6_PromptsSequential ==
  /\ \A n, m \in 1..Len(tasks) :
       PromptOf(n) < PromptOf(m) /\ tasks[m].status # "pending"
         => Terminal(tasks[n].status)
  /\ CallIssued => \A n \in 1..Len(tasks) :
       PromptOf(n) < pIndex => Terminal(tasks[n].status)
  /\ Cardinality({n \in 1..Len(tasks) : tasks[n].status = "in_progress"})
       <= NumProviders

C6_Witness ==
  /\ pIndex = 2
  /\ NumProviders >= 2
  /\ \A i \in 1..NumProviders : tasks[UnitAt(2, i)].status = "in_progress"
  /\ CallIssued

(* C7: in every AnalysisResult the i-th ProviderResponse is the one of the *)
(* i-th selected provider, in whatever order the provider tasks finished.  *)
C7_ProviderOrder ==
  \A p \in 1..Len(resultsByPrompt) :
    \A i \in 1..Len(resultsByPrompt[p].providerResponses) :
      resultsByPrompt[p].providerResponses[i].provider = config.providers[i]

C7_Witness ==
  /\ main = "resolved"
  /\ NumProviders >= 2
  /\ settled[1] = NumProviders
  /\ resultsByPrompt[NumPrompts].providerResponses[1].provider = config.providers[1]

(* ------------------- the retry engine on one work unit ----------------- *)
(* the statuses of a response that is not ok *)
HttpStatuses == 400..599

(* errorData.error?.message || response.statusText of such a response *)
StatusTexts(status) ==
  IF status = 429 THEN {<<>>, <<"rate limit", "exceeded">>}
  ELSE {<<>>, <<"status text">>}

(* messages of the SyntaxError JSON.parse throws *)
ParseTexts ==
  {<<"Unexpected end of JSON input">>,
   <<"Unexpected token } in JSON at position", "503">>}

WireFailures ==
  {Outcome("network", 0, <<>>), Outcome("shape", 0, <<>>)}
    \cup UNION {{Outcome("http", st, t) : t \in StatusTexts(st)} : st \in HttpStatuses}
    \cup {Outcome("parse", 0, t) : t \in ParseTexts}

RetryInit ==
  /\ Init
  /\ Len(config.prompts) = 1
  /\ Len(config.providers) = 1

RetryNext ==
  \/ RunAnalysis
  \/ StartUnit
  \/ AwaitAll
  \/ \E o \in WireFailures : CallFails(1, o)
  \/ BackoffElapsed(1)
  \/ CallSucceeds(1)
  \/ PromptDone

RetrySpec == RetryInit /\ [][RetryNext]_vars

(* C8: a unit whose adapter call failed with a network-transport failure   *)
(* is attempted again while retries remain: it ends in error only after    *)
(* the last attempt.                                                       *)
C8_NetworkFailureRetried ==
  \A i \in 1..Len(proc) :
    proc[i].pc = "returned" /\ proc[i].failure.kind = "network"
      => proc[i].attempt = Retries + 1

(* C9: a call that fails with HTTP status 429 or 500..599 is classified as *)
(* retryable: the unit is given up only after the last attempt. (Stated    *)
(* for the adapters that go through genericAIFetch, whose errors carry the *)
(* status.)                                                                *)
C9_ServerErrorsRetryable ==
  \A i \in 1..Len(proc) :
    /\ config.providers[i] # "gemini"
    /\ proc[i].pc = "returned"
    /\ proc[i].failure.kind = "http"
    /\ proc[i].failure.status = 429 \/ proc[i].failure.status \in 500..599
    => proc[i].attempt = Retries + 1

(* C10: after a failure that is HTTP 4xx other than 429, a parse failure   *)
(* or an unclassifiable error the unit is never retried: no onRetry, no    *)
(* backoff wait, no further call of the adapter.                           *)
NeverRetried(o) ==
  \/ o.kind = "http" /\ o.status \in 400..499 /\ o.status # 429
  \/ o.kind = "parse"
  \/ o.kind = "shape"

C10_NoRetryOfPermanentFailures ==
  \A i \in 1..Len(proc) :
    NeverRetried(proc[i].failure) =>
      /\ proc[i].pc = "returned"
      /\ proc[i].delay = 0
      /\ tasks[UnitAt(pIndex, i)].status = "error"

C12_BackoffSchedule ==
  [][\A i \in 1..Len(proc) :
       /\ (proc'[i].pc = "waiting" /\ proc[i].pc # "waiting") =>
            /\ proc'[i].attempt = proc[i].attempt
            /\ proc'[i].attempt \in 1..Retries
            /\ proc'[i].delay = (IF proc'[i].attempt = 1 THEN 1000 ELSE 2000)
            /\ proc'[i].lastError = AdapterThrows(config.providers[i], proc'[i].failure)
            /\ callback'.calls = callback.calls + 1
            /\ callback'.seen[UnitAt(pIndex, i)].status = "in_progress"
            /\ callback'.seen[UnitAt(pIndex, i)].retries = Some(proc'[i].attempt)
       /\ (pIndex' = pIndex /\ proc[i].attempt >= 1
             /\ proc'[i].attempt # proc[i].attempt) =>
            /\ proc'[i].attempt = proc[i].attempt + 1
            /\ proc[i].pc = "waiting"
            /\ proc[i].delay = (IF proc[i].attempt = 1 THEN 1000 ELSE 2000)]_vars

C12_Witness ==
  \E i \in 1..Len(proc) :
    /\ proc[i].pc = "calling"
    /\ proc[i].attempt = 3
    /\ tasks[UnitAt(pIndex, i)].retries = Some(2)

(* C13: when the adapter of a unit succeeds after k retryable failures     *)
(* (k = 1 or 2), the ProviderResponse has no error, the unit becomes       *)
(* completed, and the snapshot emitted last before the one that shows it   *)
(* completed shows it in_progress with retries = k.                        *)
C13_RetriesThenCompleted ==
  [][\A i \in 1..Len(proc) :
       (/\ pIndex' = pIndex
        /\ proc[i].pc = "calling"
        /\ proc[i].attempt > 1
        /\ proc'[i].pc = "returned"
        /\ proc'[i].failure = NoFailure) =>
         LET n == UnitAt(pIndex, i) IN
           /\ proc'[i].value[1].error = None
           /\ callback'.seen[n].status = "completed"
           /\ callback'.seen[n].retries = Some(proc[i].attempt - 1)
           /\ callback'.calls = callback.calls + 1
           /\ callback.seen[n].status = "in_progress"
           /\ callback.seen[n].retries = Some(proc[i].attempt - 1)]_vars

C13_Witness ==
  \E i \in 1..Len(proc) :
    /\ proc[i].pc = "returned"
    /\ proc[i].attempt = 3
    /\ proc[i].value[1].error = None
    /\ callback.seen[UnitAt(pIndex, i)].status = "completed"
    /\ callback.seen[UnitAt(pIndex, i)].retries = Some(2)
    /\ NumProviders >= 2

(* C14: when the adapter of a unit has thrown for good (a non-retryable    *)
(* error, or a retryable one at the last attempt), the unit is in error    *)
(* and carries the message of the exception, and the ProviderResponse of   *)
(* the unit has that message as error, an empty response and empty         *)
(* brandAnalyses and additionalAnswers.                                    *)
C14_ErrorCarriesMessage ==
  \A i \in 1..Len(proc) :
    proc[i].pc = "returned" /\ proc[i].failure # NoFailure =>
      LET e == AdapterThrows(config.providers[i], proc[i].failure)
          unit == tasks[UnitAt(pIndex, i)]
          response == proc[i].value[1]
      IN /\ unit.status = "error"
         /\ unit.error = Some(e.message)
         /\ response.error = Some(e.message)
         /\ response.response = ""
         /\ response.brandAnalyses = <<>>
         /\ response.additionalAnswers = <<>>

(* C15: a snapshot handed to onProgress is not modified afterwards: what   *)
(* its holder reads through it (status, error, retries of every unit)      *)
(* stays what it was when the snapshot was emitted, whatever transition    *)
(* comes next.                                                             *)
C15_SnapshotNeverModified ==
  [][callback.calls > 0 => View(callback.arg, tasks') = callback.seen]_vars

(* ---------------------- one invocation of an adapter ------------------- *)
MaxQuestions == 2

(* allBrands = [clientName, ...competitors] *)
AllBrands == <<"Acme", "Globex">>

BrandAnalysis(brandName, mentions, sentiment) ==
  [brandName |-> brandName, mentions |-> mentions, sentiment |-> sentiment]

(* the entries the analysis model writes: all brands, a competitor left    *)
(* out, a brand that is not configured, a brand twice, nothing             *)
EntryLists ==
  {<<BrandAnalysis("Acme", 2, "Positive"), BrandAnalysis("Globex", 0, "Not Mentioned")>>,
   <<BrandAnalysis("Acme", 2, "Positive")>>,
   <<BrandAnalysis("Acme", 1, "Neutral"), BrandAnalysis("Globex", 1, "Negative"),
     BrandAnalysis("Initech", 1, "Positive")>>,
   <<BrandAnalysis("Acme", 1, "Neutral"), BrandAnalysis("Acme", 1, "Positive"),
     BrandAnalysis("Globex", 0, "Not Mentioned")>>,
   <<>>}

AnalysisContents ==
  {NoContent}
    \cup {AnalysisContent(TRUE, f, Some(t), "brands", <<>>) :
            f \in BOOLEAN, t \in ParseTexts}
    \cup {AnalysisContent(TRUE, f, None, sh, l) :
            f \in BOOLEAN, sh \in {"brands", "array"}, l \in EntryLists}

(* the analysis outputs a provider can produce: the response schema given  *)
(* to Gemini makes its JSON text an array                                  *)
ContentsOf(provider) ==
  IF provider = "gemini"
    THEN {c \in AnalysisContents : c.syntaxError = None => c.shape = "array"}
    ELSE AnalysisContents

(* JSON.parse of the JSON text inside the fence, or of a text without one *)
JSONparse(c) ==
  IF c.syntaxError # None THEN Thrown(MkError("SyntaxError", 0, c.syntaxError[1]))
  ELSE IF c.shape = "brands" THEN ObjectValue(c.entries)
  ELSE ArrayValue(c.entries)

(* JSON.parse of the whole content: a fence is not JSON *)
JSONparseContent(c) ==
  IF c.fence
    THEN Thrown(MkError("SyntaxError", 0, <<"Unexpected token in JSON at position 0">>))
    ELSE JSONparse(c)

(* value.brands *)
Brands(value) ==
  CASE value.kind = "thrown" -> value
    [] value.kind = "object" -> ArrayValue(value.entries)
    [] OTHER -> Undefined

(* value || [] *)
OrEmpty(value) == IF value.kind = "undefined" THEN ArrayValue(<<>>) ELSE value

(* reading a property of null *)
NullRead == Thrown(MkError("TypeError", 0, <<"Cannot read properties of null">>))

(* the brandAnalyses each adapter makes of the analysis output *)
ParseAnalysis(provider, c) ==
  CASE provider = "gemini" ->
         IF c.present THEN JSONparseContent(c)
         ELSE Thrown(MkError("SyntaxError", 0, <<"undefined is not valid JSON">>))
    [] provider = "openai" ->
         IF c.present THEN OrEmpty(Brands(JSONparseContent(c))) ELSE NullRead
    [] provider = "openai-websearch" ->
         IF c.present THEN OrEmpty(Brands(JSONparseContent(c))) ELSE ArrayValue(<<>>)
    [] provider = "perplexity" ->
         IF ~c.present THEN NullRead
         ELSE IF c.fence THEN Brands(JSONparse(c))
         ELSE ArrayValue(<<>>)

(* the usage object of a response, if it has one; thoughts is              *)
(* thoughtsTokenCount, which only Gemini reports                           *)
Usages(provider) ==
  IF provider = "gemini"
    THEN {None, Some([input |-> 1, output |-> 2, thoughts |-> 4])}
    ELSE {None, Some([input |-> 1, output |-> 2, thoughts |-> 0])}

InputTokens(usage) == IF usage = None THEN 0 ELSE usage[1].input

OutputTokens(usage) == IF usage = None THEN 0 ELSE usage[1].output + usage[1].thoughts

(* tokens += the usage of a response *)
AddUsage(tokens, usage) ==
  Tokens(tokens.inputTokens + InputTokens(usage),
         tokens.outputTokens + OutputTokens(usage))

(* an entry of allRawResponses; data stands for the response body, told    *)
(* apart by the attempt whose call it answers                              *)
RawResponse(type, question, usage, attempt) ==
  [type |-> type, question |-> question, usage |-> usage, data |-> attempt]

(* runAnalysis has not been called: the state in which one adapter, the    *)
(* citation parsing or a key verification is looked at by itself           *)
NoRun ==
  /\ config \in {c \in Configs :
                   /\ ValidInput(c)
                   /\ Len(c.prompts) = 1
                   /\ c.providers = <<"gemini">>
                   /\ c.apiKeys["gemini"] /\ c.models["gemini"]}
  /\ main = "idle"
  /\ rejection = NoError
  /\ clients = [key \in KeyNames |-> FALSE]
  /\ tasks = <<>>
  /\ callback = [calls |-> 0, arg |-> <<>>, seen |-> <<>>]
  /\ pIndex = 0
  /\ mapIndex = 0
  /\ proc = <<>>
  /\ settled = <<>>
  /\ resultsByPrompt = <<>>

AdapterInit ==
  /\ NoRun
  /\ adapter = NoInvocation
  /\ rawData = NoRawData
  /\ citations = None
  /\ verification = NoVerification
  /\ summary = NoSummary

(* the adapter is invoked and issues the primary call *)
InvokeAdapter(provider, questions) ==
  /\ adapter.pc = "idle"
  /\ adapter' = [NewInvocation(provider, questions) EXCEPT
                   !.pc = "primary",
                   !.issued = <<Call("primary", 0)>>]
  /\ UNCHANGED besideAdapter

(* the primary call returns *)
PrimaryReturns(usage) ==
  /\ adapter.pc = "primary"
  /\ adapter' =
       [adapter EXCEPT
          !.pc = "analysis",
          !.allRawResponses =
             Append(@, RawResponse("initial_prompt", 0, usage, adapter.attempt)),
          !.otherTokens = AddUsage(@, usage),
          !.responseText = Some(<<"response", adapter.attempt>>),
          !.issued = Append(@, Call("analysis", 0))]
  /\ UNCHANGED besideAdapter

(* the analysis call returns c: its tokens are counted, c is parsed, and   *)
(* the calls for the additional questions are all issued                   *)
AnalysisReturns(usage, c) ==
  /\ adapter.pc = "analysis"
  /\ LET parsed == ParseAnalysis(adapter.provider, c)
         counted ==
           [adapter EXCEPT
              !.allRawResponses =
                 Append(@, RawResponse("brand_analysis", 0, usage, adapter.attempt)),
              !.analysisTokens = AddUsage(@, usage),
              !.analysisOutput = c]
     IN adapter' =
          IF parsed.kind = "thrown"
            THEN [counted EXCEPT !.pc = "threw", !.thrown = parsed.error]
            ELSE [counted EXCEPT
                    !.pc = "questions", !.brandAnalyses = parsed,
                    !.inFlight = 1..adapter.additionalQuestions,
                    !.issued = @ \o [q \in 1..adapter.additionalQuestions |->
                                       Call("question", q)]]
  /\ UNCHANGED besideAdapter

(* mutant: the callback adds the usage to the totals as they were when the *)
(* call was issued, which hold the tokens of the primary call only         *)
AddToTotals_stale(a, q, usage) ==
  AddUsage(AddUsage(Tokens(0, 0), a.allRawResponses[1].usage), usage)

(* otherInputTokens += ..., otherOutputTokens += ... in the callback of    *)
(* question q, after its await                                             *)
AddToTotals(a, q, usage) == AddUsage(a.otherTokens, usage)

(* the call for question q returns *)
AnswerReturns(q, usage) ==
  /\ adapter.pc = "questions"
  /\ q \in adapter.inFlight
  /\ adapter' =
       [adapter EXCEPT
          !.allRawResponses =
             Append(@, RawResponse("additional_question", q, usage, adapter.attempt)),
          !.otherTokens = AddToTotals(adapter, q, usage),
          !.additionalAnswers[q] = Some([question |-> q, answer |-> <<"answer", q>>]),
          !.inFlight = @ \ {q}]
  /\ UNCHANGED besideAdapter

(* mutant: the answers in the order in which the question calls returned *)
CollectAnswers_completionOrder(a) ==
  LET returned == SelectSeq(a.allRawResponses, LAMBDA r : r.type = "additional_question")
  IN [n \in 1..Len(returned) |-> a.additionalAnswers[returned[n].question][1]]

(* await Promise.all(additionalQuestions.map(...)): the values of the      *)
(* callbacks in the order of additionalQuestions                           *)
CollectAnswers(a) ==
  [q \in 1..a.additionalQuestions |-> a.additionalAnswers[q][1]]

(* the ProviderResponse of a return statement *)
ProviderResponse(a) ==
  [provider |-> AdapterProviderTag(a.provider),
   response |-> a.responseText,
   brandAnalyses |-> a.brandAnalyses,
   additionalAnswers |-> CollectAnswers(a),
   rawResponse |-> a.allRawResponses,
   error |-> None,
   tokenUsage |-> a.otherTokens,
   analysisTokenUsage |-> a.analysisTokens]

(* mutant: a failed call makes the adapter return what it has so far *)
AdapterCallFails_partial(o) ==
  /\ \/ adapter.pc \in {"primary", "analysis"}
     \/ adapter.pc = "questions" /\ adapter.inFlight # {}
  /\ adapter' =
       [adapter EXCEPT
          !.pc = "returned",
          !.inFlight = {},
          !.result =
            Some([provider |-> AdapterProviderTag(adapter.provider),
                  response |-> adapter.responseText,
                  brandAnalyses |-> adapter.brandAnalyses,
                  additionalAnswers |-> <<>>,
                  rawResponse |-> adapter.allRawResponses,
                  error |-> Some(AdapterThrows(adapter.provider, o).message),
                  tokenUsage |-> adapter.otherTokens,
                  analysisTokenUsage |-> adapter.analysisTokens])]
  /\ UNCHANGED besideAdapter

(* the call for question q fails with o: its callback rejects, which       *)
(* rejects Promise.all, and the await of it throws                         *)
QuestionCallFails(a, q, o) ==
  [a EXCEPT !.pc = "threw",
            !.thrown = AdapterThrows(a.provider, o),
            !.inFlight = @ \ {q}]

(* a call of the invocation fails: the await throws into the catch block,  *)
(* which throws again; the other question calls stay in flight             *)
AdapterCallFails(o) ==
  /\ \/ /\ adapter.pc \in {"primary", "analysis"}
        /\ adapter' = [adapter EXCEPT !.pc = "threw",
                                      !.thrown = AdapterThrows(adapter.provider, o)]
     \/ /\ adapter.pc = "questions"
        /\ \E q \in adapter.inFlight : adapter' = QuestionCallFails(adapter, q, o)
  /\ UNCHANGED besideAdapter

(* Promise.all of the answers resolves: the ProviderResponse is returned *)
AdapterReturn ==
  /\ adapter.pc = "questions"
  /\ adapter.inFlight = {}
  /\ adapter' =
       [adapter EXCEPT
          !.pc = "returned",
          !.result = Some(ProviderResponse(adapter))]
  /\ UNCHANGED besideAdapter

AdapterNext ==
  \/ \E provider \in Providers, questions \in 0..MaxQuestions :
       InvokeAdapter(provider, questions)
  \/ \E usage \in Usages(adapter.provider) : PrimaryReturns(usage)
  \/ \E usage \in Usages(adapter.provider), c \in ContentsOf(adapter.provider) :
       AnalysisReturns(usage, c)
  \/ \E q \in 1..MaxQuestions, usage \in Usages(adapter.provider) :
       AnswerReturns(q, usage)
  \/ \E o \in RunFailures : AdapterCallFails(o)
  \/ AdapterReturn

AdapterSpec == AdapterInit /\ [][AdapterNext]_vars

(* C16: the brandAnalyses of a successful adapter invocation has exactly   *)
(* one entry for every configured brand (the client and each competitor);  *)
(* a brand the analysis output leaves out is there with mentions = 0 and   *)
(* sentiment 'Not Mentioned'.                                              *)
C16_BrandCompleteness ==
  adapter.pc = "returned" =>
    LET brandAnalyses == adapter.result[1].brandAnalyses
        reported == adapter.analysisOutput.entries
    IN /\ brandAnalyses.kind = "array"
       /\ \A b \in Range(AllBrands) :
            /\ Cardinality({n \in 1..Len(brandAnalyses.entries) :
                              brandAnalyses.entries[n].brandName = b}) = 1
            /\ (\A n \in 1..Len(reported) : reported[n].brandName # b) =>
                 \E n \in 1..Len(brandAnalyses.entries) :
                   brandAnalyses.entries[n] = BrandAnalysis(b, 0, "Not Mentioned")

(* the analysis output is there but cannot be used: the JSON text is       *)
(* malformed, the "brands" wrapper is missing, or (Perplexity) the fenced  *)
(* block is missing                                                        *)
Unparseable(provider, c) ==
  /\ c.present
  /\ \/ c.syntaxError # None
     \/ provider # "gemini" /\ c.shape # "brands"
     \/ provider = "perplexity" /\ ~c.fence

(* C17: when the output of the analysis call cannot be parsed, the adapter *)
(* either throws an error that is not retried (the map callback then       *)
(* records the error with empty lists) or goes on and returns a            *)
(* ProviderResponse with an empty brandAnalyses and an error; for every    *)
(* adapter.                                                                *)
C17_ParseFailureRecorded ==
  [][Unparseable(adapter'.provider, adapter'.analysisOutput) =>
       /\ adapter.pc = "analysis" =>
            \/ adapter'.pc = "threw" /\ ~isRetryableError(adapter'.thrown)
            \/ adapter'.pc = "questions"
       /\ adapter'.pc = "returned" =>
            /\ adapter'.result[1].brandAnalyses = ArrayValue(<<>>)
            /\ adapter'.result[1].error # None]_vars

(* the input and the output tokens of the responses of a raw trace *)
RECURSIVE SumInput(_)
SumInput(log) ==
  IF log = <<>> THEN 0 ELSE InputTokens(Head(log).usage) + SumInput(Tail(log))

RECURSIVE SumOutput(_)
SumOutput(log) ==
  IF log = <<>> THEN 0 ELSE OutputTokens(Head(log).usage) + SumOutput(Tail(log))

OfType(log, types) == SelectSeq(log, LAMBDA r : r.type \in types)

(* C19: the tokenUsage of a successful adapter invocation is the sum of    *)
(* the token counts of the primary call and of all Q calls for the         *)
(* additional questions, and analysisTokenUsage is the count of the        *)
(* analysis call alone, in whatever order the question calls returned.     *)
C19_TokenTotals ==
  adapter.pc = "returned" =>
    LET log == adapter.allRawResponses
        other == OfType(log, {"initial_prompt", "additional_question"})
        analysis == OfType(log, {"brand_analysis"})
        result == adapter.result[1]
    IN /\ Len(OfType(log, {"initial_prompt"})) = 1
       /\ Len(analysis) = 1
       /\ {r.question : r \in Range(OfType(log, {"additional_question"}))}
            = 1..adapter.additionalQuestions
       /\ Len(other) = 1 + adapter.additionalQuestions
       /\ result.tokenUsage.inputTokens
            = SumInput(other)
       /\ result.tokenUsage.outputTokens
            = SumOutput(other)
       /\ result.analysisTokenUsage.inputTokens = InputTokens(analysis[1].usage)
       /\ result.analysisTokenUsage.outputTokens = OutputTokens(analysis[1].usage)

C19_Witness ==
  /\ adapter.pc = "returned"
  /\ adapter.provider = "gemini"
  /\ adapter.additionalQuestions = 2
  /\ adapter.allRawResponses[3].question = 2
  /\ adapter.allRawResponses[4].question = 1
  /\ adapter.result[1].tokenUsage = Tokens(3, 18)
  /\ adapter.result[1].analysisTokenUsage = Tokens(1, 6)

(* ------------------ citation parsing of the Perplexity adapter --------- *)
MaxListLen == 2

Urls == {"https://a.example", "https://b.example"}

(* a JavaScript value that is a string, and one that is not *)
StringValue(text) == [isString |-> TRUE, value |-> text]

NotAString == [isString |-> FALSE, value |-> "42"]

(* an element of rawData.search_results; present is false for null *)
SearchResult(present, url, title) == [present |-> present, url |-> url, title |-> title]

CitationEntries == {StringValue(u) : u \in Urls} \cup {NotAString}

SearchResultEntries ==
  {SearchResult(TRUE, StringValue(u), t) : u \in Urls, t \in {"", "Title"}}
    \cup {SearchResult(TRUE, NotAString, "Title"), SearchResult(FALSE, NotAString, "")}

ListsOf(S) == UNION {[1..n -> S] : n \in 0..MaxListLen}

RawDatas ==
  {[citations |-> c, search_results |-> r] :
     c \in ListsOf(CitationEntries), r \in ListsOf(SearchResultEntries)}

Citation(index, url, title) == [index |-> index, url |-> url, title |-> title]

(* citations, foundUrls and citationIndex before the two loops *)
NoCitations == [citations |-> <<>>, foundUrls |-> {}, citationIndex |-> 1]

(* foundUrls.add(url); citations.push({ index: citationIndex++, url, title }) *)
PushCitation(st, url, title) ==
  [citations |-> Append(st.citations, Citation(st.citationIndex, url, title)),
   foundUrls |-> st.foundUrls \cup {url},
   citationIndex |-> st.citationIndex + 1]

(* rawData.citations.forEach(...) *)
RECURSIVE ForEachCitation(_, _)
ForEachCitation(st, list) ==
  IF list = <<>> THEN st
  ELSE LET url == Head(list) IN
         ForEachCitation(
           IF url.isString /\ url.value \notin st.foundUrls
             THEN PushCitation(st, url.value, "")
             ELSE st,
           Tail(list))

(* rawData.search_results.forEach(...) *)
RECURSIVE ForEachSearchResult(_, _)
ForEachSearchResult(st, list) ==
  IF list = <<>> THEN st
  ELSE LET result == Head(list) IN
         ForEachSearchResult(
           IF result.present /\ result.url.isString
                /\ result.url.value \notin st.foundUrls
             THEN PushCitation(st, result.url.value, result.title)
             ELSE st,
           Tail(list))

(* mutant: the loop over search_results starts with an empty foundUrls *)
ParseCitations_separateSets(rd) ==
  ForEachSearchResult(
    [ForEachCitation(NoCitations, rd.citations) EXCEPT !.foundUrls = {}],
    rd.search_results).citations

(* the citations the Perplexity adapter builds from rawData *)
ParseCitations(rd) ==
  ForEachSearchResult(ForEachCitation(NoCitations, rd.citations),
                      rd.search_results).citations

CitationInit ==
  /\ NoRun
  /\ adapter = NoInvocation
  /\ rawData \in RawDatas
  /\ citations = None
  /\ verification = NoVerification
  /\ summary = NoSummary

(* the primary call of the Perplexity adapter has returned rawData *)
BuildCitations ==
  /\ citations = None
  /\ citations' = Some(ParseCitations(rawData))
  /\ UNCHANGED <<config, main, rejection, clients, tasks, callback, pIndex, mapIndex,
                 proc, settled, resultsByPrompt, adapter, rawData, verification,
                 summary>>

CitationNext == BuildCitations

CitationSpec == CitationInit /\ [][CitationNext]_vars

(* the URLs of a response in the order it lists them: those of citations,  *)
(* then those of search_results                                            *)
ListedUrls(rd) ==
  LET cited == SelectSeq(rd.citations, LAMBDA v : v.isString)
      found == SelectSeq(rd.search_results, LAMBDA r : r.present /\ r.url.isString)
  IN [n \in 1..Len(cited) |-> cited[n].value]
       \o [n \in 1..Len(found) |-> found[n].url.value]

(* the first position of url in the sequence of URLs *)
FirstAt(urls, url) == CHOOSE n \in 1..Len(urls) :
  urls[n] = url /\ \A m \in 1..(n - 1) : urls[m] # url

(* C18: the Perplexity adapter emits one Citation per distinct URL of the  *)
(* citations and search_results fields, the URLs of citations first in     *)
(* list order, then the URLs of search_results not seen before, with the   *)
(* indices 1..k; a URL in both lists has the index of its place in         *)
(* citations.                                                              *)
C18_CitationsDeduplicated ==
  citations # None =>
    LET out == citations[1]
        listed == ListedUrls(rawData)
        cited == {rawData.citations[n].value :
                    n \in {m \in 1..Len(rawData.citations) : rawData.citations[m].isString}}
    IN /\ {out[n].url : n \in 1..Len(out)} = Range(listed)
       /\ Len(out) = Cardinality(Range(listed))
       /\ \A n \in 1..Len(out) : out[n].index = n
       /\ \A n, m \in 1..Len(out) :
            n < m => FirstAt(listed, out[n].url) < FirstAt(listed, out[m].url)
       /\ \A n \in 1..Len(out) : out[n].url \in cited <=> n <= Cardinality(cited)

C18_Witness ==
  /\ citations # None
  /\ Len(rawData.citations) = 2
  /\ Len(rawData.search_results) = 2
  /\ rawData.citations[1].isString
  /\ rawData.citations[2] = rawData.citations[1]
  /\ rawData.search_results[1].present
  /\ rawData.search_results[1].url = rawData.citations[1]
  /\ rawData.search_results[2].present
  /\ rawData.search_results[2].url.isString
  /\ rawData.search_results[2].url # rawData.citations[1]
  /\ Len(citations[1]) = 2
  /\ citations[1][1].url = rawData.citations[1].value
  /\ citations[1][2].url = rawData.search_results[2].url.value

(* ------------------------- key verification ---------------------------- *)
(* the provider name each verification function reports errors under *)
VerifiedName(key) ==
  CASE key = "gemini" -> "Google Gemini"
    [] key = "openai" -> "OpenAI"
    [] key = "perplexity" -> "Perplexity"

InvalidKeyMsg == <<"Authentication failed. The API key is invalid or has been revoked.">>

CouldNotConnectMsg(name) ==
  <<"Could not connect to", name, "servers. Please check your network connection.">>

UnknownVerificationMsg(name) ==
  <<"An unknown error occurred while verifying the", name, "key.">>

handleVerificationError(e, name) ==
  LET errorMessage ==
        IF e.name \in ErrorClasses
          THEN IF Includes(e.message, "API key not valid") \/ e.status = 401
                 THEN InvalidKeyMsg
                 ELSE IF Includes(e.message, "Network Error")
                   THEN CouldNotConnectMsg(name)
                   ELSE e.message
          ELSE UnknownVerificationMsg(name)
  IN [isValid |-> FALSE, error |-> Some(errorMessage)]

(* the failures a probe call is answered with; a parse failure is that of  *)
(* response.json() on the body of an ok response; rejected is a rejection  *)
(* of the Gemini client with a value that is not an Error                  *)
ProbeFailures ==
  {o \in WireFailures : o.kind # "shape"}
    \cup {Outcome("http", 400, <<"API key not valid", "Please pass a valid API key.">>),
          Outcome("rejected", 0, <<"unavailable">>)}

(* What the probe call of a verification function throws. The Gemini       *)
(* client is not part of the sources: its errors carry the text of the     *)
(* response, and may or may not carry the HTTP status as a property.       *)
ProbeThrows(key, o, carriesStatus) ==
  IF key = "gemini"
    THEN IF o.kind = "rejected" THEN MkError("string", 0, o.text)
         ELSE [generateContent(o) EXCEPT
                 !.status = IF carriesStatus /\ o.kind = "http" THEN o.status ELSE 0]
    ELSE genericAIFetch(o, HostOf(key))

(* the failures that can befall the probe of a verification function *)
ProbeFailuresOf(key) ==
  IF key = "gemini" THEN ProbeFailures
  ELSE {o \in ProbeFailures : o.kind # "rejected"}

VerificationInit ==
  /\ NoRun
  /\ adapter = NoInvocation
  /\ rawData = NoRawData
  /\ citations = None
  /\ verification = NoVerification
  /\ summary = NoSummary

besideVerification ==
  <<config, main, rejection, clients, tasks, callback, pIndex, mapIndex, proc,
    settled, resultsByPrompt, adapter, rawData, citations, summary>>

(* verifyGeminiApiKey, verifyOpenAIApiKey or verifyPerplexityApiKey is     *)
(* called and issues its probe call                                        *)
VerifyApiKey(key) ==
  /\ verification.pc = "idle"
  /\ verification' = [verification EXCEPT !.pc = "probing", !.key = key]
  /\ UNCHANGED besideVerification

(* the probe call returns: return { isValid: true } *)
ProbeSucceeds ==
  /\ verification.pc = "probing"
  /\ verification' =
       [verification EXCEPT !.pc = "resolved",
                            !.result = Some([isValid |-> TRUE, error |-> None])]
  /\ UNCHANGED besideVerification

(* mutant: the verification function has no catch block *)
ProbeFailed_rethrown(v, o, e) ==
  [v EXCEPT !.pc = "rejected", !.outcome = o, !.thrown = e]

(* the catch block of a verification function *)
ProbeFailed(v, o, e) ==
  [v EXCEPT !.pc = "resolved", !.outcome = o, !.thrown = e,
            !.result = Some(handleVerificationError(e, VerifiedName(v.key)))]

(* the probe call fails with outcome o *)
ProbeFails(o, carriesStatus) ==
  /\ verification.pc = "probing"
  /\ o \in ProbeFailuresOf(verification.key)
  /\ verification' =
       ProbeFailed(verification, o, ProbeThrows(verification.key, o, carriesStatus))
  /\ UNCHANGED besideVerification

VerificationNext ==
  \/ \E key \in KeyNames : VerifyApiKey(key)
  \/ ProbeSucceeds
  \/ \E o \in ProbeFailures, carriesStatus \in BOOLEAN : ProbeFails(o, carriesStatus)

VerificationSpec == VerificationInit /\ [][VerificationNext]_vars

(* C20 as claimed: a verification function never rejects; it resolves with *)
(* isValid true exactly when the probe succeeded; after a 401 response it  *)
(* resolves with isValid false and the invalid-key message, after any      *)
(* other failure with isValid false and a transport or unknown message.    *)
C20_VerificationClassifies ==
  /\ verification.pc # "rejected"
  /\ verification.pc = "resolved" =>
       LET result == verification.result[1]
           o == verification.outcome
       IN /\ result.isValid <=> o = NoFailure
          /\ (o.kind = "http" /\ o.status = 401) =>
               result.error = Some(InvalidKeyMsg)
          /\ (o # NoFailure /\ ~(o.kind = "http" /\ o.status = 401)) =>
               result.error # Some(InvalidKeyMsg) /\ result.error # None

(* C20, amended: a verification function never rejects and resolves with   *)
(* isValid true exactly when the probe succeeded. After a failure it       *)
(* resolves with isValid false and: the invalid-key message when the       *)
(* error has status 401 or its message contains 'API key not valid'        *)
(* (always after a 401 from OpenAI or Perplexity); else the                *)
(* could-not-connect message when the message contains 'Network Error';    *)
(* else the message of the error itself, or the unknown-error message      *)
(* when the thrown value is not an Error.                                  *)
C20_VerificationNeverRejects ==
  /\ verification.pc # "rejected"
  /\ verification.pc = "resolved" =>
       LET result == verification.result[1]
           o == verification.outcome
           e == verification.thrown
           name == VerifiedName(verification.key)
       IN /\ result.isValid <=> o = NoFailure
          /\ result.isValid => result.error = None
          /\ (o.kind = "http" /\ o.status = 401 /\ verification.key # "gemini") =>
               result.error = Some(InvalidKeyMsg)
          /\ ~result.isValid =>
               result.error =
                 Some(CASE e.name \notin ErrorClasses -> UnknownVerificationMsg(name)
                        [] e.name \in ErrorClasses
                             /\ (e.status = 401 \/ Includes(e.message, "API key not valid"))
                             -> InvalidKeyMsg
                        [] OTHER ->
                             IF Includes(e.message, "Network Error")
                               THEN CouldNotConnectMsg(name) ELSE e.message)

C20_Witness ==
  /\ verification.pc = "resolved"
  /\ verification.key = "gemini"
  /\ verification.outcome.status = 400
  /\ Includes(verification.thrown.message, "API key not valid")
  /\ verification.result[1] = [isValid |-> FALSE, error |-> Some(InvalidKeyMsg)]

(* ----------------------- the run under fairness ------------------------ *)
(* The run does not stop while a step is possible: a pending provider call *)
(* returns or fails, a backoff timer fires, the event loop runs a callback *)
(* that is ready. This asks less than fairness to every single call, so    *)
(* what holds under it holds when every call returns or fails.             *)
Fairness == WF_vars(Next)

(* work units of a run that is followed to its end *)
MaxFairUnits == 2

FairInit ==
  /\ Init
  /\ Len(config.prompts) * Len(config.providers) <= MaxFairUnits

FairSpec == FairInit /\ [][Next]_vars /\ Fairness

(* runAnalysis has resolved with a complete result list, or has rejected   *)
(* with the error of the client initializer or of the provider switch      *)
Settled ==
  \/ /\ main = "resolved"
     /\ Len(resultsByPrompt) = NumPrompts
     /\ \A p \in 1..NumPrompts :
          Len(resultsByPrompt[p].providerResponses) = NumProviders
  \/ /\ main = "rejected"
     /\ MissingCredential(config) \/ MissingModel(config)

(* C21: when every provider call returns or fails, runAnalysis settles: it *)
(* resolves with the complete result list or rejects with a configuration  *)
(* error, and no unit makes more than retries + 1 adapter calls on the     *)
(* way.                                                                    *)
C21_RunSettles ==
  /\ <>Settled
  /\ [](\A i \in 1..Len(proc) : proc[i].attempt <= Retries + 1)

C21_Witness ==
  /\ Settled
  /\ main = "resolved"
  /\ NumPrompts >= 2
  /\ \E n \in 1..Len(tasks) : tasks[n].retries = Some(Retries) /\ tasks[n].status = "error"

(* C22: a call of updateTaskStatus changes the unit it is called for and   *)
(* no other, and emits one snapshot with all P*N units in prompt-major,    *)
(* provider-minor order: two consecutive snapshots differ in at most one   *)
(* unit.                                                                   *)
C22_OneUnitPerSnapshot ==
  [][callback'.calls # callback.calls =>
       /\ callback'.calls = callback.calls + 1
       /\ callback'.seen = tasks'
       /\ Len(callback'.seen) = NumPrompts * NumProviders
       /\ \A n \in 1..Len(callback'.seen) :
            callback'.seen[n].id
              = TaskId(PromptOf(n), config.providers[n - (PromptOf(n) - 1) * NumProviders])
       /\ callback.calls > 0 =>
            /\ Cardinality({n \in 1..Len(tasks) : tasks'[n] # tasks[n]}) <= 1
            /\ Cardinality({n \in 1..Len(callback.seen) :
                              callback'.seen[n] # callback.seen[n]}) <= 1
            /\ \A n \in 1..Len(tasks) :
                 tasks'[n] # tasks[n] =>
                   \E i \in 1..NumProviders :
                     n = UnitAt(pIndex, i) /\ proc'[i] # proc[i]]_vars

C22_Witness ==
  /\ NumPrompts >= 2
  /\ NumProviders >= 2
  /\ pIndex = 2
  /\ tasks[UnitAt(1, 1)].status = "error"
  /\ tasks[UnitAt(1, 2)].status = "completed"
  /\ tasks[UnitAt(2, 1)].status = "in_progress"
  /\ tasks[UnitAt(2, 1)].retries = Some(1)
  /\ tasks[UnitAt(2, 2)].status = "in_progress"
  /\ tasks[UnitAt(2, 2)].retries = None

(* C23: the additionalAnswers of a successful adapter invocation has one   *)
(* entry per configured question, the i-th for the i-th question, in       *)
(* whatever order the question calls returned.                             *)
C23_AnswersInQuestionOrder ==
  adapter.pc = "returned" =>
    LET answers == adapter.result[1].additionalAnswers IN
      /\ Len(answers) = adapter.additionalQuestions
      /\ \A i \in 1..Len(answers) :
           /\ answers[i].question = i
           /\ answers[i].answer = <<"answer", i>>

C23_Witness ==
  /\ adapter.pc = "returned"
  /\ adapter.provider = "perplexity"
  /\ adapter.additionalQuestions = 2
  /\ adapter.allRawResponses[3].question = 2
  /\ adapter.allRawResponses[4].question = 1
  /\ adapter.result[1].additionalAnswers[1].question = 1

Issued(a, call) == \E n \in 1..Len(a.issued) : a.issued[n].call = call

Returned(a, type) == \E n \in 1..Len(a.allRawResponses) : a.allRawResponses[n].type = type

(* C24: within one adapter attempt the analysis call is issued only after  *)
(* the primary call has returned, and the question calls only after the    *)
(* analysis output has been obtained and parsed; if the primary call       *)
(* fails, no analysis or question call is issued in that attempt and the   *)
(* adapter throws instead of returning a partial ProviderResponse.         *)
C24_CallsInSequence ==
  [][/\ Issued(adapter', "analysis") /\ ~Issued(adapter, "analysis") =>
          /\ Issued(adapter, "primary")
          /\ Returned(adapter', "initial_prompt")
          /\ adapter'.responseText # None
     /\ Issued(adapter', "question") /\ ~Issued(adapter, "question") =>
          /\ Issued(adapter, "analysis")
          /\ Returned(adapter', "brand_analysis")
          /\ adapter'.brandAnalyses
               = ParseAnalysis(adapter'.provider, adapter'.analysisOutput)
          /\ adapter'.brandAnalyses.kind # "thrown"
     /\ adapter.pc = "primary" /\ ~Returned(adapter', "initial_prompt") =>
          /\ adapter'.pc = "threw"
          /\ adapter'.thrown # NoError
          /\ adapter'.result = None
          /\ adapter'.issued = <<Call("primary", 0)>>
     /\ adapter.pc = "threw" => adapter' = adapter]_vars

C24_Witness ==
  /\ adapter.pc = "threw"
  /\ adapter.issued = <<Call("primary", 0)>>
  /\ adapter.additionalQuestions = 2
  /\ adapter.allRawResponses = <<>>
  /\ adapter.result = None
  /\ adapter.thrown.name = "APIError"

(* -------------------- the adapter under retryWithBackoff ---------------- *)

(* mutant: the trace and the token counters live outside the adapter and   *)
(* are kept from one attempt to the next                                   *)
Reinvoke_keepsLocals(a) ==
  [a EXCEPT
     !.pc = "primary",
     !.attempt = a.attempt + 1,
     !.issued = <<Call("primary", 0)>>,
     !.stale = a.stale + Cardinality(a.inFlight),
     !.inFlight = {},
     !.additionalAnswers = [q \in 1..a.additionalQuestions |-> None],
     !.thrown = NoError]

(* the next pass of the loop calls fn() again: the adapter starts with     *)
(* new locals and issues the primary call; the question calls of the       *)
(* failed attempt that are still in flight belong to the old invocation    *)
Reinvoke(a) ==
  [NewInvocation(a.provider, a.additionalQuestions) EXCEPT
     !.pc = "primary",
     !.attempt = a.attempt + 1,
     !.issued = <<Call("primary", 0)>>,
     !.stale = a.stale + Cardinality(a.inFlight)]

(* the adapter threw a retryable error and attempts are left: after the    *)
(* delay retryWithBackoff invokes the adapter again                        *)
RetryAdapter ==
  /\ adapter.pc = "threw"
  /\ isRetryableError(adapter.thrown)
  /\ adapter.attempt <= Retries
  /\ adapter' = Reinvoke(adapter)
  /\ UNCHANGED besideAdapter

(* a question call of a failed attempt settles: its callback pushes onto   *)
(* the allRawResponses of the invocation that issued it                    *)
StaleCallSettles ==
  /\ adapter.stale > 0
  /\ adapter' = [adapter EXCEPT !.stale = @ - 1]
  /\ UNCHANGED besideAdapter

(* the analysis outputs followed through the retries: one of each kind *)
RetryContents(provider) ==
  {c \in ContentsOf(provider) :
     c.entries \in {<<>>, <<BrandAnalysis("Acme", 2, "Positive")>>}}

AdapterRetryNext ==
  \/ \E provider \in Providers, questions \in 0..MaxQuestions :
       InvokeAdapter(provider, questions)
  \/ \E usage \in Usages(adapter.provider) : PrimaryReturns(usage)
  \/ \E usage \in Usages(adapter.provider), c \in RetryContents(adapter.provider) :
       AnalysisReturns(usage, c)
  \/ \E q \in 1..MaxQuestions, usage \in Usages(adapter.provider) :
       AnswerReturns(q, usage)
  \/ \E o \in RunFailures : AdapterCallFails(o)
  \/ AdapterReturn
  \/ RetryAdapter
  \/ StaleCallSettles

AdapterRetrySpec == AdapterInit /\ [][AdapterRetryNext]_vars

(* C27: a retry re-executes the whole adapter from the primary call,       *)
(* whichever call raised the retryable failure, and the ProviderResponse   *)
(* that is returned (response text, token usage, raw trace) holds only     *)
(* data of the final, successful attempt.                                  *)
C27_RetryStartsAfresh ==
  [][/\ adapter'.attempt # adapter.attempt =>
          /\ adapter.pc = "threw"
          /\ isRetryableError(adapter.thrown)
          /\ adapter'.attempt = adapter.attempt + 1
          /\ adapter'.attempt <= Retries + 1
          /\ adapter'.pc = "primary"
          /\ adapter'.issued = <<Call("primary", 0)>>
          /\ adapter'.allRawResponses = <<>>
     /\ adapter'.pc = "returned" =>
          LET result == adapter'.result[1]
              other == OfType(result.rawResponse, {"initial_prompt", "additional_question"})
              analysis == OfType(result.rawResponse, {"brand_analysis"})
          IN /\ result.response = Some(<<"response", adapter'.attempt>>)
             /\ Len(result.rawResponse) = 2 + adapter'.additionalQuestions
             /\ \A n \in 1..Len(result.rawResponse) :
                  result.rawResponse[n].data = adapter'.attempt
             /\ result.tokenUsage = Tokens(SumInput(other), SumOutput(other))
             /\ result.analysisTokenUsage = Tokens(SumInput(analysis), SumOutput(analysis))]_vars

C27_Witness ==
  /\ adapter.pc = "returned"
  /\ adapter.attempt = Retries + 1
  /\ adapter.additionalQuestions = 2
  /\ adapter.stale = 1
  /\ adapter.result[1].tokenUsage.inputTokens = 3
  /\ adapter.result[1].rawResponse[1].data = Retries + 1

(* C25: once the promise returned by runAnalysis has settled (resolved or  *)
(* rejected), the progress callback is never invoked again and no further  *)
(* provider call is issued on behalf of that run.                          *)
C25_QuietAfterSettling ==
  [][(main = "resolved" \/ main = "rejected") =>
       /\ callback'.calls = callback.calls
       /\ \A i \in 1..Len(proc) : proc'[i].attempt = proc[i].attempt]_vars

(* C26: every work unit that enters in_progress eventually reaches         *)
(* completed or error; no unit is left in_progress when runAnalysis        *)
(* settles.                                                                *)
C26_NoUnitLeftInProgress ==
  (main = "resolved" \/ main = "rejected") =>
    \A n \in 1..Len(tasks) : tasks[n].status # "in_progress"

(* the retries field read as a number: absent counts as none *)
RetriesOf(task) == IF task.retries = None THEN 0 ELSE task.retries[1]

(* the adapter calls of unit i of the current prompt that have failed *)
FailedAttempts(i) ==
  CASE proc[i].pc = "calling" -> proc[i].attempt - 1
    [] proc[i].pc = "waiting" -> proc[i].attempt
    [] proc[i].pc = "returned" ->
         IF proc[i].value[1].error # None THEN proc[i].attempt ELSE proc[i].attempt - 1
    [] OTHER -> 0

(* C28: in every snapshot a work unit's retries field is absent until its  *)
(* first retry and afterwards is 1 or 2: it never decreases, never exceeds *)
(* the retry limit of 2, changes only while the unit is in_progress, and   *)
(* equals the number of failed attempts of that unit so far.               *)
C28_RetriesCountFailedAttempts ==
  /\ \A n \in 1..Len(tasks) : tasks[n].retries \in {None} \cup {Some(k) : k \in 1..Retries}
  /\ \A i \in 1..Len(proc) : RetriesOf(tasks[UnitAt(pIndex, i)]) = FailedAttempts(i)

(* C28, amended: the retries field is absent until the first retry and     *)
(* afterwards is 1 or 2; it never decreases, changes only while the unit   *)
(* is in_progress, and equals the number of failed attempts that were      *)
(* followed by a retry: the number of failed attempts of the unit so far,  *)
(* less the final failure once the unit is in error.                       *)
C28_RetriesCountRetries ==
  [][/\ \A n \in 1..Len(tasks') :
          tasks'[n].retries \in {None} \cup {Some(k) : k \in 1..Retries}
     /\ \A i \in 1..Len(proc') :
          LET task == tasks'[UnitAt(pIndex', i)]
              failed == IF proc'[i].pc = "calling" THEN proc'[i].attempt - 1
                        ELSE IF proc'[i].pc = "waiting" THEN proc'[i].attempt
                        ELSE IF proc'[i].pc = "returned"
                          THEN IF proc'[i].value[1].error # None
                                 THEN proc'[i].attempt ELSE proc'[i].attempt - 1
                        ELSE 0
          IN RetriesOf(task) = failed - (IF task.status = "error" THEN 1 ELSE 0)
     /\ \A n \in 1..Len(tasks) :
          /\ RetriesOf(tasks'[n]) >= RetriesOf(tasks[n])
          /\ tasks'[n].retries # tasks[n].retries =>
               /\ tasks[n].status = "in_progress"
               /\ tasks'[n].status = "in_progress"
               /\ RetriesOf(tasks'[n]) = RetriesOf(tasks[n]) + 1]_vars

C28_Witness ==
  /\ main = "await"
  /\ Len(proc) = 2
  /\ proc[1].pc = "returned" /\ proc[1].attempt = Retries + 1
  /\ tasks[UnitAt(pIndex, 1)].status = "error"
  /\ tasks[UnitAt(pIndex, 1)].retries = Some(Retries)
  /\ proc[2].pc = "calling"
  /\ tasks[UnitAt(pIndex, 2)].retries = None

(* ------------- an adapter whose question calls have fixed outcomes ------ *)

(* the outcomes the question calls can be given: NoFailure is an answer *)
Fates ==
  UNION {[1..questions -> {NoFailure} \cup RunFailures] : questions \in 1..MaxQuestions}

(* the adapter is invoked; fate[q] is what the call for question q will be *)
(* answered with, whenever that happens                                    *)
InvokeFated(provider, fate) ==
  /\ adapter.pc = "idle"
  /\ adapter' = [NewInvocation(provider, Len(fate)) EXCEPT
                   !.pc = "primary",
                   !.issued = <<Call("primary", 0)>>,
                   !.fate = fate]
  /\ UNCHANGED besideAdapter

(* the call for question q is answered as fixed *)
FatedCallSettles(q, usage) ==
  /\ adapter.pc = "questions"
  /\ q \in adapter.inFlight
  /\ IF adapter.fate[q] = NoFailure
       THEN AnswerReturns(q, usage)
       ELSE /\ adapter' = QuestionCallFails(adapter, q, adapter.fate[q])
            /\ UNCHANGED besideAdapter

FatedNext ==
  \/ \E provider \in Providers, fate \in Fates : InvokeFated(provider, fate)
  \/ \E usage \in Usages(adapter.provider) : PrimaryReturns(usage)
  \/ \E usage \in Usages(adapter.provider), c \in RetryContents(adapter.provider) :
       AnalysisReturns(usage, c)
  \/ \E q \in 1..MaxQuestions, usage \in Usages(adapter.provider) :
       FatedCallSettles(q, usage)
  \/ AdapterReturn

FatedSpec == AdapterInit /\ [][FatedNext]_vars

(* the first question, in the order of additionalQuestions, whose call     *)
(* fails: the one whose failure ends the invocation when the calls settle  *)
(* in the order in which they were issued                                  *)
FirstFailing(fate) ==
  CHOOSE q \in 1..Len(fate) :
    /\ fate[q] # NoFailure
    /\ \A r \in 1..(q - 1) : fate[r] = NoFailure

(* C29: given the same configuration and the same outcome for every        *)
(* provider call, the result (apart from the rawResponse trace) and the    *)
(* final status of every unit are the same for every interleaving of the   *)
(* concurrent calls: an invocation whose question calls have fixed         *)
(* outcomes ends as it does when the calls settle in the order of issue.   *)
C29_SameResultForEveryOrder ==
  adapter.fate # <<>> =>
    /\ adapter.pc = "returned" =>
         /\ \A q \in 1..Len(adapter.fate) : adapter.fate[q] = NoFailure
         /\ adapter.result[1].additionalAnswers = CollectAnswers(adapter)
         /\ adapter.result[1].brandAnalyses
              = ParseAnalysis(adapter.provider, adapter.analysisOutput)
    /\ adapter.pc = "threw" /\ Issued(adapter, "question") =>
         adapter.thrown
           = AdapterThrows(adapter.provider, adapter.fate[FirstFailing(adapter.fate)])

(* --------------------------- the run summary --------------------------- *)

(* provider responses in the results a summary is made of *)
MaxResponses == 2

(* String.prototype.toLowerCase, letter by letter *)
LowerOf(ch) ==
  CASE ch = "A" -> "a"
    [] ch = "C" -> "c"
    [] ch = "M" -> "m"
    [] ch = "E" -> "e"
    [] ch = "I" -> "i"
    [] OTHER -> ch

toLowerCase(text) == [n \in 1..Len(text) |-> LowerOf(text[n])]

(* a brand analysis as the analysis output gives it; the name is a string  *)
(* of letters or something else                                            *)
SummaryAnalysis(brandName, mentions, sentiment) ==
  [brandName |-> brandName, mentions |-> mentions, sentiment |-> sentiment]

(* the brandAnalyses the provider responses of a run can hold: arrays, an  *)
(* empty array for an error response, undefined for a Perplexity output    *)
(* without the brands key                                                  *)
SummaryLists ==
  {ArrayValue(<<>>),
   ArrayValue(<<SummaryAnalysis(StringValue(<<"A", "c", "m", "e">>), 2, "Positive"),
                SummaryAnalysis(StringValue(<<"G", "l", "o">>), 3, "Neutral")>>),
   ArrayValue(<<SummaryAnalysis(StringValue(<<"A", "C", "M", "E">>), 1, "Negative"),
                SummaryAnalysis(StringValue(<<"a", "c", "m", "e">>), 0, "Not Mentioned")>>),
   ArrayValue(<<SummaryAnalysis(StringValue(<<"A", "c", "m", "e", " ", "I">>), 1, "Neutral"),
                SummaryAnalysis(NotAString, 1, "Positive"),
                SummaryAnalysis(StringValue(<<>>), 1, "Mixed")>>),
   ArrayValue(<<SummaryAnalysis(StringValue(<<"a", "c", "m", "E">>), 4, "Neutral"),
                SummaryAnalysis(StringValue(<<"G", "l", "o">>), 0, "Not Mentioned"),
                SummaryAnalysis(StringValue(<<"a", "c", "m">>), 2, "Negative")>>),
   Undefined}

(* AnalysisResult[]: one result per prompt, one response per provider *)
SummaryResults ==
  UNION {[1..shape[1] ->
            [prompt : {"prompt"},
             providerResponses : [1..shape[2] -> [brandAnalyses : SummaryLists]]]] :
           shape \in {x \in (1..MaxResponses) \X (1..MaxResponses) :
                        x[1] * x[2] <= MaxResponses}}

ClientNames == {<<"A", "c", "m", "e">>, <<"a", "c", "m", "e">>}

(* mutant: the names are compared as they are *)
NameMatches_exact(brandName, clientName) ==
  /\ brandName.isString
  /\ brandName.value # <<>>
  /\ brandName.value = clientName

(* analysis.brandName && typeof analysis.brandName === 'string'            *)
(*   && analysis.brandName.toLowerCase() === clientName.toLowerCase()      *)
NameMatches(brandName, clientName) ==
  /\ brandName.isString
  /\ brandName.value # <<>>
  /\ toLowerCase(brandName.value) = toLowerCase(clientName)

NoCounts ==
  [threw |-> FALSE, clientMentions |-> 0,
   sentimentCounts |-> [positive |-> 0, neutral |-> 0, negative |-> 0]]

(* the body of the innermost forEach *)
CountAnalysis(acc, analysis, clientName) ==
  [acc EXCEPT
     !.clientMentions =
        IF NameMatches(analysis.brandName, clientName) THEN @ + analysis.mentions ELSE @,
     !.sentimentCounts =
        IF analysis.sentiment = "Positive" THEN [@ EXCEPT !.positive = @ + 1]
        ELSE IF analysis.sentiment = "Neutral" THEN [@ EXCEPT !.neutral = @ + 1]
        ELSE IF analysis.sentiment = "Negative" THEN [@ EXCEPT !.negative = @ + 1]
        ELSE @]

(* pResponse.brandAnalyses.forEach(...) on an array *)
RECURSIVE ForEachAnalysis(_, _, _)
ForEachAnalysis(acc, analyses, clientName) ==
  IF analyses = <<>> THEN acc
  ELSE ForEachAnalysis(CountAnalysis(acc, Head(analyses), clientName), Tail(analyses),
                       clientName)

(* result.providerResponses.forEach(...): forEach of undefined throws *)
RECURSIVE ForEachResponse(_, _, _)
ForEachResponse(acc, responses, clientName) ==
  IF acc.threw \/ responses = <<>> THEN acc
  ELSE IF Head(responses).brandAnalyses.kind # "array" THEN [acc EXCEPT !.threw = TRUE]
  ELSE ForEachResponse(
         ForEachAnalysis(acc, Head(responses).brandAnalyses.entries, clientName),
         Tail(responses), clientName)

(* results.forEach(...) *)
RECURSIVE ForEachResult(_, _, _)
ForEachResult(acc, results, clientName) ==
  IF acc.threw \/ results = <<>> THEN acc
  ELSE ForEachResult(ForEachResponse(acc, Head(results).providerResponses, clientName),
                     Tail(results), clientName)

SummaryInit ==
  /\ NoRun
  /\ adapter = NoInvocation
  /\ rawData = NoRawData
  /\ citations = None
  /\ verification = NoVerification
  /\ summary \in {[NoSummary EXCEPT !.results = r, !.clientName = c] :
                    r \in SummaryResults, c \in ClientNames}

(* calculateRunSummary(results, clientName) returns the RunSummary or throws *)
CalculateRunSummary ==
  /\ summary.pc = "idle"
  /\ LET acc == ForEachResult(NoCounts, summary.results, summary.clientName) IN
       summary' =
         IF acc.threw
           THEN [summary EXCEPT !.pc = "threw"]
           ELSE [summary EXCEPT
                   !.pc = "returned",
                   !.value = Some([clientMentions |-> acc.clientMentions,
                                   sentimentCounts |-> acc.sentimentCounts])]
  /\ UNCHANGED <<config, main, rejection, clients, tasks, callback, pIndex, mapIndex,
                 proc, settled, resultsByPrompt, adapter, rawData, citations,
                 verification>>

SummaryNext == CalculateRunSummary

SummarySpec == SummaryInit /\ [][SummaryNext]_vars

(* the two cases of each letter *)
CasePairs == {{"A", "a"}, {"C", "c"}, {"M", "m"}, {"E", "e"}, {"I", "i"}}

(* the same text but for the case of its letters *)
SameIgnoringCase(a, b) ==
  /\ Len(a) = Len(b)
  /\ \A n \in 1..Len(a) : a[n] = b[n] \/ {a[n], b[n]} \in CasePairs

(* where the brand analyses of results are: prompt, response, entry *)
AnalysesOf(results) ==
  {<<p, i, k>> \in (1..Len(results)) \X (1..MaxResponses + 1) \X (1..3) :
     /\ i <= Len(results[p].providerResponses)
     /\ k <= Len(results[p].providerResponses[i].brandAnalyses.entries)}

AnalysisAt(results, at) ==
  results[at[1]].providerResponses[at[2]].brandAnalyses.entries[at[3]]

RECURSIVE TotalMentions(_, _)
TotalMentions(results, places) ==
  IF places = {} THEN 0
  ELSE LET at == CHOOSE x \in places : TRUE
       IN AnalysisAt(results, at).mentions + TotalMentions(results, places \ {at})

WithSentiment(results, sentiment) ==
  Cardinality({at \in AnalysesOf(results) : AnalysisAt(results, at).sentiment = sentiment})

(* C30: calculateRunSummary returns clientMentions equal to the sum of     *)
(* mentions over all brand-analysis entries, across all prompts and        *)
(* providers, whose brandName equals the client name case-insensitively,   *)
(* and sentimentCounts equal to the number of entries of any brand with    *)
(* sentiment Positive, Neutral and Negative; entries with 'Not Mentioned'  *)
(* are counted in none of the three.                                       *)
C30_RunSummary ==
  summary.pc = "returned" =>
    LET results == summary.results
        value == summary.value[1]
        ofClient ==
          {at \in AnalysesOf(results) :
             /\ AnalysisAt(results, at).brandName.isString
             /\ SameIgnoringCase(AnalysisAt(results, at).brandName.value,
                                 summary.clientName)}
    IN /\ value.clientMentions = TotalMentions(results, ofClient)
       /\ value.sentimentCounts.positive = WithSentiment(results, "Positive")
       /\ value.sentimentCounts.neutral = WithSentiment(results, "Neutral")
       /\ value.sentimentCounts.negative = WithSentiment(results, "Negative")
       /\ value.sentimentCounts.positive + value.sentimentCounts.neutral
            + value.sentimentCounts.negative
            = Cardinality(AnalysesOf(results))
                - Cardinality({at \in AnalysesOf(results) :
                                 AnalysisAt(results, at).sentiment
                                   \notin {"Positive", "Neutral", "Negative"}})

C30_Witness ==
  /\ summary.pc = "returned"
  /\ Len(summary.results) = 2
  /\ summary.clientName = <<"a", "c", "m", "e">>
  /\ summary.value[1].clientMentions = 3
  /\ summary.value[1].sentimentCounts = [positive |-> 1, neutral |-> 1, negative |-> 1]
  /\ WithSentiment(summary.results, "Not Mentioned") = 1
====
